---------------------------- MODULE Spec2Model ----------------------------
(***************************************************************************)
(* A model of the dataset-view front end of fiftyone:                      *)
(*   - the field classifier and getDisplayOptions of DisplayOptionsWrapper *)
(*     (electron/app/containers/SamplesContainer.tsx),                     *)
(*   - the sidebar height / sticky offset logic of the same component,     *)
(*   - the Dataset route (app/packages/app/src/Root/Datasets/Dataset.tsx), *)
(*   - the Teams lead-capture form (unnamed/part_000),                     *)
(*   - the dataset view and its reset of the active fields                 *)
(*     (unnamed/part_001),                                                 *)
(*   - the selection mappings and their toggle handlers                    *)
(*     (electron/app/containers/SamplesContainer.tsx).                     *)
(*                                                                         *)
(* Each component has its own specification over the one set of variables; *)
(* a specification leaves the other components' variables at their initial *)
(* values.                                                                 *)
(*                                                                         *)
(* JavaScript strings that are compared by order (field names) are         *)
(* sequences of UTF-16 code units; strings that are only compared for      *)
(* equality (type names, button labels) are TLA+ strings.  A JavaScript    *)
(* object used as a lookup table is a function whose DOMAIN is its set of  *)
(* keys; reading a missing key gives Undefined.                            *)
(***************************************************************************)
EXTENDS Integers, Sequences, FiniteSets, TLC

VARIABLES
    \* ---- field classifier (SamplesContainer.tsx 47-49, 83-96)
    labelNames,        \* selectors.labelNames: the field names, in order
    labelTypes,        \* selectors.labelTypes: name -> label type
    fieldSchema,       \* selectors.fieldSchema: name -> schema type
    labelNameGroups,   \* the loop's result {labels, scalars, unsupported}
    clsPc,             \* "start" | "classified"
    \* ---- getDisplayOptions (SamplesContainer.tsx 56-63)
    optValues,         \* the {name, type} entries passed in
    optCounts,         \* counts: name -> integer
    optSelected,       \* selected: name -> boolean (keys may be missing)
    displayOptions,    \* the returned DisplayOption records
    optPc,             \* "start" | "built"
    \* ---- Dataset route (Dataset.tsx 78-99)
    routePhase,        \* "unmounted" | "mounted": is an instance of the route committed
    queryDataset,      \* `dataset` of the latest render pass (NoRender before the first)
    effectDeps,        \* the [dataset] the committed useEffect holds (NoDeps: none)
    effectPending,     \* the effect of the last commit has not run yet
    stateDataset,      \* the dataset published in shared view state (NoDataset: none)
    routeOutput,       \* what the latest render pass produced
    sameRenders,       \* render passes in a row with the value of queryDataset
    publishCount,      \* update() calls since queryDataset last changed
    \* ---- sidebar layout (SamplesContainer.tsx 46, 54, 70-82, 100-105, 146-181)
    wrapperPhase,      \* DisplayOptionsWrapper: "unmounted" | "committed" | "active"
    sidebarAttached,   \* sidebarRef.current holds the sidebar element
    innerHeight,       \* window.innerHeight
    sidebarTop,        \* the top of the sidebar's bounding rectangle
    sidebarHeight,     \* the state sidebarHeight: Unset or Px(n)
    stickyRect,        \* stickyHeaderRef.current.stickyRect (NoRect: not there)
    stickyOffset,      \* the offset the latest render gave the Sticky
    lastTrigger,       \* what happened last
    layoutError,       \* updateSidebarHeight has thrown
    \* ---- Teams lead-capture form (unnamed/part_000)
    appTeamsIsOpen,    \* atoms.appTeamsIsOpen: the form's container is open
    formState,         \* the six input values of the mounted form
    submitText,        \* the label of the submit button
    teamsSubmitted,    \* atoms.teams: teams.submitted
    inFlight,          \* requests of the mounted form awaiting their response
    staleInFlight,     \* requests of forms unmounted since, awaiting theirs
    closeTimers,       \* pending setTimeout(() => setOpen(false), 2000)
    posts,             \* requests issued to the marketing endpoint
    lastBody,          \* the body of the latest of them (NoBody: none)
    trackingCalls,     \* requests issued to /teams?submitted=true
    lastResponse,      \* the latest response a submission got (NoResponse: none)
    \* ---- the dataset view (part_001) ----
    viewDatasetName,   \* selectors.datasetName in the store ("": no dataset)
    activeFields,      \* the atom schemaAtoms.activeFields({ modal: false })
    viewMounted,       \* the Dataset component has rendered
    resetDeps,         \* [dataset] of the committed effect of useResetPaths
    resetPending,      \* that effect is scheduled and has not run
    gridUses,          \* what the last render pass gave the grid (NoGrid: no grid)
    \* ---- the selection mappings (SamplesContainer.tsx, lines 32-39, 64-69) ----
    activeTags,        \* displayProps.activeTags: name -> boolean
    activeLabels,      \* displayProps.activeLabels
    activeOther,       \* displayProps.activeOther
    pendingUpdates,    \* updaters queued by setSelected calls since the last render
    lastBatch          \* history: how many updaters the render just done applied

classifierVars == <<labelNames, labelTypes, fieldSchema, labelNameGroups, clsPc>>
optionVars     == <<optValues, optCounts, optSelected, displayOptions, optPc>>
routeVars      == <<routePhase, queryDataset, effectDeps, effectPending, stateDataset,
                    routeOutput, sameRenders, publishCount>>
layoutVars     == <<wrapperPhase, sidebarAttached, innerHeight, sidebarTop,
                    sidebarHeight, stickyRect, stickyOffset, lastTrigger, layoutError>>
formVars       == <<appTeamsIsOpen, formState, submitText, teamsSubmitted, inFlight,
                    staleInFlight, closeTimers, posts, lastBody, trackingCalls,
                    lastResponse>>
viewVars == <<viewDatasetName, activeFields, viewMounted, resetDeps, resetPending,
              gridUses>>
selectionVars == <<activeTags, activeLabels, activeOther, pendingUpdates, lastBatch>>

-----------------------------------------------------------------------------
(* Bounds *)

\* The number of field names of a dataset (at most 4 are spelled out below).
MaxFields == 3
\* Sample counts range over 0..MaxCount.
MaxCount == 1
\* The values of lastLoadedAt of a dataset description.
MaxLoads == 4
\* Render passes of the Dataset route in a row with the same query result.
MaxRenders == 3
\* Requests the lead-capture form issues to the marketing endpoint.
MaxSubmits == 2
\* The most setSelected calls handled between two render passes.
MaxPending == 2

-----------------------------------------------------------------------------
(* JavaScript values *)

\* The value of a missing key / an absent property.
Undefined == "undefined"

\* obj[key] for a lookup table holding strings.
Lookup(obj, key) == IF key \in DOMAIN obj THEN obj[key] ELSE Undefined

\* Boolean(obj[key]) for a lookup table holding booleans: a missing key reads
\* undefined, which is falsy.
BooleanOf(obj, key) == key \in DOMAIN obj /\ obj[key]

\* All lookup tables with keys among K and values in V.
Tables(K, V) == UNION {[S -> V] : S \in SUBSET K}

\* s < t for strings, as JavaScript compares them: by code units, a proper
\* prefix first.
RECURSIVE StrLess(_, _)
StrLess(s, t) ==
    IF t = <<>> THEN FALSE
    ELSE IF s = <<>> THEN TRUE
    ELSE IF Head(s) # Head(t) THEN Head(s) < Head(t)
    ELSE StrLess(Tail(s), Tail(t))

\* The field names: "a", "ab", "b", "ba".
AllNames == <<  <<97>>, <<97, 98>>, <<98>>, <<98, 97>>  >>
Names == {AllNames[i] : i \in 1..(IF MaxFields < 4 THEN MaxFields ELSE 4)}

\* The sequences over S without repetition, of length at most n.
RECURSIVE DistinctSeqs(_, _)
DistinctSeqs(S, n) ==
    IF n = 0 THEN {<<>>}
    ELSE LET shorter == DistinctSeqs(S, n - 1)
         IN  shorter \cup
             {Append(q, x) : <<q, x>> \in
                 {p \in shorter \X S : \A i \in 1..Len(p[1]) : p[1][i] # p[2]}}

Range(q) == {q[i] : i \in 1..Len(q)}

-----------------------------------------------------------------------------
(* Field classifier *)

\* utils/labels: the allow-lists (defined outside the files modelled here; the values are the
\* specification's example allow-lists).
VALID_LABEL_TYPES == {"Classification"}
VALID_SCALAR_TYPES == {"float"}

LabelTypeValues == {"Classification", "UnknownType"}
SchemaTypeValues == {"float", "UnknownType"}

EmptyGroups == [labels |-> <<>>, scalars |-> <<>>, unsupported |-> <<>>]

\* A mutation of ClassifyStep: the scalar test does not exclude labels, so a
\* label field whose schema type is an allowed scalar lands in both groups.
ClassifyStepBoth(groups, name, lt, fs) ==
    LET g1 == IF Lookup(lt, name) \in VALID_LABEL_TYPES
              THEN [groups EXCEPT !.labels =
                       Append(@, [name |-> name, type |-> Lookup(lt, name)])]
              ELSE groups
    IN  IF Lookup(fs, name) \in VALID_SCALAR_TYPES
        THEN [g1 EXCEPT !.scalars = Append(@, [name |-> name, type |-> Undefined])]
        ELSE IF Lookup(lt, name) \in VALID_LABEL_TYPES THEN g1
        ELSE [g1 EXCEPT !.unsupported =
                 Append(@, [name |-> name, type |-> Undefined])]

\* A mutation of ClassifyStep: the two tests are taken in the other order.
ClassifyStepScalarFirst(groups, name, lt, fs) ==
    IF Lookup(fs, name) \in VALID_SCALAR_TYPES
    THEN [groups EXCEPT !.scalars = Append(@, [name |-> name, type |-> Undefined])]
    ELSE IF Lookup(lt, name) \in VALID_LABEL_TYPES
    THEN [groups EXCEPT !.labels =
             Append(@, [name |-> name, type |-> Lookup(lt, name)])]
    ELSE [groups EXCEPT !.unsupported =
             Append(@, [name |-> name, type |-> Undefined])]

\* The body of the loop (lines 89-95) for one name.  {name} has no type
\* property: reading it gives undefined.
ClassifyStep(groups, name, lt, fs) ==
    IF Lookup(lt, name) \in VALID_LABEL_TYPES
    THEN [groups EXCEPT !.labels =
             Append(@, [name |-> name, type |-> Lookup(lt, name)])]
    ELSE IF Lookup(fs, name) \in VALID_SCALAR_TYPES
    THEN [groups EXCEPT !.scalars = Append(@, [name |-> name, type |-> Undefined])]
    ELSE [groups EXCEPT !.unsupported =
             Append(@, [name |-> name, type |-> Undefined])]

\* for (const name of labelNames) { ... }, from the groups built so far.
RECURSIVE ClassifyLoop(_, _, _, _)
ClassifyLoop(groups, names, lt, fs) ==
    IF names = <<>> THEN groups
    ELSE ClassifyLoop(ClassifyStep(groups, Head(names), lt, fs), Tail(names), lt, fs)

ClassifierInit ==
    /\ labelNames \in DistinctSeqs(Names, MaxFields)
    /\ labelTypes \in Tables(Names, LabelTypeValues)
    /\ fieldSchema \in Tables(Names, SchemaTypeValues)
    /\ labelNameGroups = EmptyGroups
    /\ clsPc = "start"

ClassifierIdle ==
    /\ labelNames = <<>>
    /\ labelTypes = <<>>
    /\ fieldSchema = <<>>
    /\ labelNameGroups = EmptyGroups
    /\ clsPc = "start"

\* A render of DisplayOptionsWrapper builds labelNameGroups from the current
\* selector values.
Classify ==
    /\ clsPc = "start"
    /\ labelNameGroups' = ClassifyLoop(EmptyGroups, labelNames, labelTypes, fieldSchema)
    /\ clsPc' = "classified"
    /\ UNCHANGED <<labelNames, labelTypes, fieldSchema>>
    /\ UNCHANGED <<optionVars, routeVars, layoutVars, formVars, viewVars, selectionVars>>

-----------------------------------------------------------------------------
(* getDisplayOptions *)

\* String(v) of a plain object: "[object Object]", whatever its properties.
ObjectToString == <<91, 111, 98, 106, 101, 99, 116, 32, 79, 98, 106, 101, 99, 116, 93>>
JSToString(v) == ObjectToString

\* Array.prototype.sort() without a comparator orders the elements by their
\* string conversions.
SortCompareLess(x, y) == StrLess(JSToString(x), JSToString(y))

\* e goes before the first element that is greater: elements that compare
\* equal keep their order (the sort is stable; engines that were not stable
\* were so only beyond 10 elements).
RECURSIVE SortInsert(_, _)
SortInsert(sorted, e) ==
    IF sorted = <<>> THEN <<e>>
    ELSE IF SortCompareLess(e, Head(sorted)) THEN <<e>> \o sorted
    ELSE <<Head(sorted)>> \o SortInsert(Tail(sorted), e)

RECURSIVE SortFrom(_, _)
SortFrom(sorted, rest) ==
    IF rest = <<>> THEN sorted
    ELSE SortFrom(SortInsert(sorted, Head(rest)), Tail(rest))

\* [...values].sort()
JSSort(values) == SortFrom(<<>>, values)

\* getDisplayOptions(values, counts, selected), lines 56-63.
getDisplayOptions(values, counts, selected) ==
    LET s == JSSort(values)
    IN  [i \in 1..Len(s) |->
            [name |-> s[i].name,
             type |-> s[i].type,
             count |-> counts[s[i].name],
             selected |-> BooleanOf(selected, s[i].name)]]

\* The entries {name, type} over distinct names, in any order.
EntrySeqs ==
    UNION {
        {[i \in 1..Len(q) |-> [name |-> q[i], type |-> ty[q[i]]]] :
            ty \in [Range(q) -> {Undefined, "Classification"}]} :
        q \in DistinctSeqs(Names, MaxFields)}

OptionsInit ==
    /\ optValues \in EntrySeqs
    /\ optCounts \in [Names -> 0..MaxCount]
    /\ optSelected \in Tables(Names, BOOLEAN)
    /\ displayOptions = <<>>
    /\ optPc = "start"

OptionsIdle ==
    /\ optValues = <<>>
    /\ optCounts = <<>>
    /\ optSelected = <<>>
    /\ displayOptions = <<>>
    /\ optPc = "start"

BuildDisplayOptions ==
    /\ optPc = "start"
    /\ displayOptions' = getDisplayOptions(optValues, optCounts, optSelected)
    /\ optPc' = "built"
    /\ UNCHANGED <<optValues, optCounts, optSelected>>
    /\ UNCHANGED <<classifierVars, routeVars, layoutVars, formVars, viewVars, selectionVars>>

-----------------------------------------------------------------------------
(* Dataset route *)

DatasetNames == {"quickstart", "cifar10"}

\* The DatasetDescription values of the query: the fields the route reads.  A
\* query result is one object for as long as its data is unchanged, so a value
\* stands for its reference.
Datasets == [name : DatasetNames, lastLoadedAt : 1..MaxLoads]

\* dataset: null, the query found no dataset of that name.
Null == [null |-> TRUE]
NoRender == [none |-> "render"]
NoDeps == [none |-> "deps"]
NoDataset == [none |-> "dataset"]

\* transformDataset (./transformDataset, outside the files modelled here): the reshaped
\* description keeps the identity of the dataset.
transformDataset(d) == [name |-> d.name, lastLoadedAt |-> d.lastLoadedAt]

\* selectors.datasetName (outside the files modelled here): the name of the published
\* dataset, undefined while there is none.
datasetName(state) == IF state = NoDataset THEN Undefined ELSE state.name

\* !name
Falsy(name) == name = Undefined \/ name = ""

\* A mutation of RouteThrows: the not-found check is missing.
RouteNeverThrows(d) == FALSE

\* if (!dataset) throw new NotFoundError(...), lines 82-84.
RouteThrows(d) == d = Null

\* A mutation of EffectRuns: useEffect without its dependency list runs after
\* every render.
EffectRunsEveryRender(phase, deps, d) == TRUE

\* useEffect(..., [dataset]), lines 88-92: the effect runs after the first
\* commit of an instance and after a commit whose dataset is another object.
EffectRuns(phase, deps, d) == phase = "unmounted" \/ deps # d

\* if (!name) return null; return <DatasetComponent />, lines 94-98.
RouteView(name) == IF Falsy(name) THEN "null" ELSE "DatasetComponent"

RouteInit ==
    /\ routePhase = "unmounted"
    /\ queryDataset = NoRender
    /\ effectDeps = NoDeps
    /\ effectPending = FALSE
    /\ stateDataset = NoDataset
    /\ routeOutput = "none"
    /\ sameRenders = 0
    /\ publishCount = 0

\* One render pass of Dataset with query result d.  Pending effects are
\* flushed before a render starts.  A render that throws commits nothing and
\* the error boundary above takes the instance down; the next render is the
\* first of a new instance.
RouteRender(d) ==
    /\ ~effectPending
    /\ d = queryDataset => sameRenders < MaxRenders
    /\ queryDataset' = d
    /\ sameRenders' = IF d = queryDataset THEN sameRenders + 1 ELSE 1
    /\ publishCount' = IF d = queryDataset THEN publishCount ELSE 0
    /\ IF RouteThrows(d)
       THEN /\ routeOutput' = "NotFoundError"
            /\ routePhase' = "unmounted"
            /\ effectDeps' = NoDeps
            /\ effectPending' = FALSE
       ELSE /\ routeOutput' = RouteView(datasetName(stateDataset))
            /\ routePhase' = "mounted"
            /\ effectDeps' = d
            /\ effectPending' = EffectRuns(routePhase, effectDeps, d)
    /\ UNCHANGED stateDataset
    /\ UNCHANGED <<classifierVars, optionVars, layoutVars, formVars, viewVars, selectionVars>>

\* The effect: update({dataset: transformDataset(dataset)}) with the dataset
\* of the render that scheduled it.  update (useStateUpdate, not among the
\* sources) replaces the published dataset in one step.
RouteEffect ==
    /\ effectPending
    /\ stateDataset' = transformDataset(effectDeps)
    /\ publishCount' = publishCount + 1
    /\ effectPending' = FALSE
    /\ UNCHANGED <<routePhase, queryDataset, effectDeps, routeOutput, sameRenders>>
    /\ UNCHANGED <<classifierVars, optionVars, layoutVars, formVars, viewVars, selectionVars>>

-----------------------------------------------------------------------------
(* Sidebar layout of DisplayOptionsWrapper *)

ViewportHeights == {600, 800}
PanelTops == {0, 100}
HeaderHeights == {40, 64}

\* useState("unset"), line 46, and the numbers setSidebarHeight is given.
Unset == [unset |-> TRUE]
Px(n) == [px |-> n]

NoRect == [none |-> "rect"]
StickyRects == {NoRect} \cup {[height |-> h] : h \in HeaderHeights}

\* let headerHeight = 0; if (stickyHeaderRef.current && ...stickyRect)
\* headerHeight = ...stickyRect.height, lines 54 and 70-72.
headerHeight(rect) == IF rect = NoRect THEN 0 ELSE rect.height

\* A mutation of updateSidebarHeight: the test of the reference is missing,
\* and reading the rectangle of no element throws.
updateSidebarHeightUnguarded(attached, cur, ih, top) ==
    IF attached
    THEN [height |-> Px(ih - top), threw |-> FALSE]
    ELSE [height |-> cur, threw |-> TRUE]

\* A mutation of updateSidebarHeight: the top offset is not subtracted.
updateSidebarHeightNoTop(attached, cur, ih, top) ==
    IF attached
    THEN [height |-> Px(ih), threw |-> FALSE]
    ELSE [height |-> cur, threw |-> FALSE]

\* updateSidebarHeight, lines 73-79: the new value of sidebarHeight, and
\* whether the call threw.
updateSidebarHeight(attached, cur, ih, top) ==
    IF attached
    THEN [height |-> Px(ih - top), threw |-> FALSE]
    ELSE [height |-> cur, threw |-> FALSE]

LayoutInit ==
    /\ wrapperPhase = "unmounted"
    /\ sidebarAttached = FALSE
    /\ innerHeight = 800
    /\ sidebarTop = 100
    /\ sidebarHeight = Unset
    /\ stickyRect = NoRect
    /\ stickyOffset = 0
    /\ lastTrigger = "none"
    /\ layoutError = FALSE

\* A call of updateSidebarHeight in the environment of the next state.  A
\* changed sidebarHeight renders the wrapper again, which reads the header's
\* height anew.
RunUpdateSidebarHeight ==
    LET r == updateSidebarHeight(sidebarAttached', sidebarHeight, innerHeight', sidebarTop')
    IN  /\ sidebarHeight' = r.height
        /\ layoutError' = (layoutError \/ r.threw)
        /\ stickyOffset' = IF r.height # sidebarHeight
                           THEN headerHeight(stickyRect')
                           ELSE stickyOffset

\* showSidebar becomes true (lines 170-177): the wrapper renders and commits.
\* Whether the sidebar component hands its element to sidebarRef is up to
\* that component (outside the files modelled here).
ShowSidebar(attaches) ==
    /\ wrapperPhase = "unmounted"
    /\ wrapperPhase' = "committed"
    /\ sidebarAttached' = attaches
    /\ sidebarHeight' = Unset
    /\ stickyOffset' = headerHeight(stickyRect)
    /\ lastTrigger' = "show"
    /\ UNCHANGED <<innerHeight, sidebarTop, stickyRect, layoutError>>
    /\ UNCHANGED <<classifierVars, optionVars, routeVars, formVars, viewVars, selectionVars>>

\* The effects of the first commit: useEffect(updateSidebarHeight, []), line
\* 82, and the registration of the resize and scroll handlers, lines 80-81.
MountEffects ==
    /\ wrapperPhase = "committed"
    /\ wrapperPhase' = "active"
    /\ lastTrigger' = "mount"
    /\ UNCHANGED <<sidebarAttached, innerHeight, sidebarTop, stickyRect>>
    /\ RunUpdateSidebarHeight
    /\ UNCHANGED <<classifierVars, optionVars, routeVars, formVars, viewVars, selectionVars>>

\* showSidebar becomes false: the wrapper unmounts, its state is dropped, its
\* handlers are removed and the reference is cleared.
HideSidebar ==
    /\ wrapperPhase # "unmounted"
    /\ wrapperPhase' = "unmounted"
    /\ sidebarAttached' = FALSE
    /\ sidebarHeight' = Unset
    /\ stickyOffset' = 0
    /\ lastTrigger' = "hide"
    /\ UNCHANGED <<innerHeight, sidebarTop, stickyRect, layoutError>>
    /\ UNCHANGED <<classifierVars, optionVars, routeVars, formVars, viewVars, selectionVars>>

\* The window is resized to height h, which leaves the sidebar's top at t;
\* the handler of useResizeHandler (../utils/hooks, outside the files modelled here)
\* runs if it is registered.
WindowResize(h, t) ==
    /\ innerHeight' = h
    /\ sidebarTop' = t
    /\ lastTrigger' = "resize"
    /\ UNCHANGED <<wrapperPhase, sidebarAttached, stickyRect>>
    /\ IF wrapperPhase = "active"
       THEN RunUpdateSidebarHeight
       ELSE UNCHANGED <<sidebarHeight, stickyOffset, layoutError>>
    /\ UNCHANGED <<classifierVars, optionVars, routeVars, formVars, viewVars, selectionVars>>

\* The container is scrolled, which leaves the sidebar's top at t; the handler
\* of useScrollHandler (../utils/hooks, outside the files modelled here) runs if it is
\* registered.
ContainerScroll(t) ==
    /\ sidebarTop' = t
    /\ lastTrigger' = "scroll"
    /\ UNCHANGED <<wrapperPhase, sidebarAttached, innerHeight, stickyRect>>
    /\ IF wrapperPhase = "active"
       THEN RunUpdateSidebarHeight
       ELSE UNCHANGED <<sidebarHeight, stickyOffset, layoutError>>
    /\ UNCHANGED <<classifierVars, optionVars, routeVars, formVars, viewVars, selectionVars>>

\* The content above the sidebar changes height: its top moves to t with no
\* resize or scroll event.
LayoutShift(t) ==
    /\ t # sidebarTop
    /\ sidebarTop' = t
    /\ lastTrigger' = "shift"
    /\ UNCHANGED <<wrapperPhase, sidebarAttached, innerHeight, sidebarHeight,
                   stickyRect, stickyOffset, layoutError>>
    /\ UNCHANGED <<classifierVars, optionVars, routeVars, formVars, viewVars, selectionVars>>

\* The header's Sticky (lines 158-168) measures itself: stickyRect is a field
\* of that component, not state of the wrapper, so nothing renders.
StickyMeasure(r) ==
    /\ r # stickyRect
    /\ stickyRect' = r
    /\ lastTrigger' = "measure"
    /\ UNCHANGED <<wrapperPhase, sidebarAttached, innerHeight, sidebarTop,
                   sidebarHeight, stickyOffset, layoutError>>
    /\ UNCHANGED <<classifierVars, optionVars, routeVars, formVars, viewVars, selectionVars>>

\* The wrapper renders again (its parent rendered, or a Recoil value it reads
\* changed): lines 54 and 70-72 run again, and line 102 passes the result.
WrapperRender ==
    /\ wrapperPhase # "unmounted"
    /\ stickyOffset' = headerHeight(stickyRect)
    /\ lastTrigger' = "render"
    /\ UNCHANGED <<wrapperPhase, sidebarAttached, innerHeight, sidebarTop,
                   sidebarHeight, stickyRect, layoutError>>
    /\ UNCHANGED <<classifierVars, optionVars, routeVars, formVars, viewVars, selectionVars>>

-----------------------------------------------------------------------------
(* Teams lead-capture form *)

FormFields == {"email", "firstname", "lastname", "company", "role", "discover"}

\* What an input may hold: "" and "x".
FieldValues == { <<>>, <<120>> }

\* useState({email: "", ...}), lines 14-21.
EmptyForm == [f \in FormFields |-> <<>>]

NoBody == [none |-> "body"]

\* What fetch may settle with: a response with a status and a body that
\* response.json() can or cannot parse, or a rejection (a network error).
NoResponse == [none |-> "response"]
Responses ==
    {[networkError |-> FALSE, status |-> st, jsonBody |-> j] :
        st \in {200, 500}, j \in BOOLEAN}
    \cup {[networkError |-> TRUE, status |-> 0, jsonBody |-> FALSE]}

\* Lines 74-79: the second then runs when fetch did not reject, the status is
\* 200 and response.json() resolves; otherwise the catch of line 86 runs.
ResponseSucceeds(r) == ~r.networkError /\ r.status = 200 /\ r.jsonBody

\* The body of the request, lines 43-72, without its submittedAt (the time of
\* the call).
RequestBody(fs) ==
    [fields |-> << [name |-> "firstname", value |-> fs.firstname],
                   [name |-> "lastname", value |-> fs.lastname],
                   [name |-> "email", value |-> fs.email],
                   [name |-> "company", value |-> fs.company],
                   [name |-> "role", value |-> fs.role],
                   [name |-> "app_how_did_you_hear_about_us", value |-> fs.discover] >>,
     context |-> [pageName |-> "FiftyOne App"]]

\* A mutation of SubmitDisabled: the first name is not tested.
SubmitDisabledNoFirstname(fs, submitted) ==
    ~(Len(fs.email) # 0 /\ Len(fs.lastname) # 0) \/ submitted

\* disabled={!(email?.length && firstname?.length && lastname?.length) ||
\* teams.submitted}, lines 158-164: a length is truthy when it is not 0.
SubmitDisabled(fs, submitted) ==
    ~(Len(fs.email) # 0 /\ Len(fs.firstname) # 0 /\ Len(fs.lastname) # 0) \/ submitted

FormInit ==
    /\ appTeamsIsOpen = FALSE
    /\ formState = EmptyForm
    /\ submitText = "Submit"
    /\ teamsSubmitted = FALSE
    /\ inFlight = 0
    /\ staleInFlight = 0
    /\ closeTimers = 0
    /\ posts = 0
    /\ lastBody = NoBody
    /\ trackingCalls = 0
    /\ lastResponse = NoResponse

\* setOpen(false) while the form is mounted: the container closes and the form
\* unmounts; its state is dropped and its requests go on without it.
UnmountForm ==
    /\ appTeamsIsOpen' = FALSE
    /\ formState' = EmptyForm
    /\ submitText' = "Submit"
    /\ staleInFlight' = staleInFlight + inFlight
    /\ inFlight' = 0

\* The application opens the container (the opener is outside the files modelled here):
\* a new form mounts, lines 14-22.
OpenForm ==
    /\ ~appTeamsIsOpen
    /\ appTeamsIsOpen' = TRUE
    /\ formState' = EmptyForm
    /\ submitText' = "Submit"
    /\ UNCHANGED <<teamsSubmitted, inFlight, staleInFlight, closeTimers, posts,
                   lastBody, trackingCalls, lastResponse>>
    /\ UNCHANGED <<classifierVars, optionVars, routeVars, layoutVars, viewVars, selectionVars>>

\* The close button, line 96.
CloseForm ==
    /\ appTeamsIsOpen
    /\ UnmountForm
    /\ UNCHANGED <<teamsSubmitted, closeTimers, posts, lastBody, trackingCalls,
                   lastResponse>>
    /\ UNCHANGED <<classifierVars, optionVars, routeVars, layoutVars, viewVars, selectionVars>>

\* setFormValue(name) on a change event with value v, lines 29-33.
SetFormValue(name, v) ==
    /\ appTeamsIsOpen
    /\ formState' = [formState EXCEPT ![name] = v]
    /\ UNCHANGED <<appTeamsIsOpen, submitText, teamsSubmitted, inFlight, staleInFlight,
                   closeTimers, posts, lastBody, trackingCalls, lastResponse>>
    /\ UNCHANGED <<classifierVars, optionVars, routeVars, layoutVars, viewVars, selectionVars>>

\* A click on the submit button, which is not disabled: submit, lines 35-73,
\* up to the fetch.
Submit ==
    /\ appTeamsIsOpen
    /\ ~SubmitDisabled(formState, teamsSubmitted)
    /\ posts < MaxSubmits
    /\ submitText' = "Submitting..."
    /\ posts' = posts + 1
    /\ lastBody' = RequestBody(formState)
    /\ inFlight' = inFlight + 1
    /\ UNCHANGED <<appTeamsIsOpen, formState, teamsSubmitted, staleInFlight,
                   closeTimers, trackingCalls, lastResponse>>
    /\ UNCHANGED <<classifierVars, optionVars, routeVars, layoutVars, viewVars, selectionVars>>

\* A mutation of SubmitSucceeded: the timer is set without setTeams.
SubmitSucceededNoFlag(mounted, r) ==
    /\ ResponseSucceeds(r)
    /\ lastResponse' = r
    /\ IF mounted
       THEN /\ inFlight > 0
            /\ inFlight' = inFlight - 1
            /\ submitText' = "Submitted. Thank you!"
            /\ UNCHANGED staleInFlight
       ELSE /\ staleInFlight > 0
            /\ staleInFlight' = staleInFlight - 1
            /\ UNCHANGED <<inFlight, submitText>>
    /\ trackingCalls' = trackingCalls + 1
    /\ closeTimers' = closeTimers + 1
    /\ UNCHANGED <<appTeamsIsOpen, formState, teamsSubmitted, posts, lastBody>>
    /\ UNCHANGED <<classifierVars, optionVars, routeVars, layoutVars, viewVars, selectionVars>>

\* The fetch of a request settles with r, a response with status 200 and a
\* JSON body: lines 74-85.  mounted: the form that issued the request is
\* still mounted; setSubmitText of an unmounted form does nothing.
SubmitSucceeded(mounted, r) ==
    /\ ResponseSucceeds(r)
    /\ lastResponse' = r
    /\ IF mounted
       THEN /\ inFlight > 0
            /\ inFlight' = inFlight - 1
            /\ submitText' = "Submitted. Thank you!"
            /\ UNCHANGED staleInFlight
       ELSE /\ staleInFlight > 0
            /\ staleInFlight' = staleInFlight - 1
            /\ UNCHANGED <<inFlight, submitText>>
    /\ teamsSubmitted' = TRUE
    /\ trackingCalls' = trackingCalls + 1
    /\ closeTimers' = closeTimers + 1
    /\ UNCHANGED <<appTeamsIsOpen, formState, posts, lastBody>>
    /\ UNCHANGED <<classifierVars, optionVars, routeVars, layoutVars, viewVars, selectionVars>>

\* A mutation of SubmitFailed: the catch issues the request again.
SubmitFailedRetries(mounted, r) ==
    /\ ~ResponseSucceeds(r)
    /\ lastResponse' = r
    /\ IF mounted
       THEN /\ inFlight > 0
            /\ submitText' = "Something went wrong"
       ELSE /\ staleInFlight > 0
            /\ UNCHANGED submitText
    /\ posts' = posts + 1
    /\ UNCHANGED <<appTeamsIsOpen, formState, teamsSubmitted, inFlight, staleInFlight,
                   closeTimers, lastBody, trackingCalls>>
    /\ UNCHANGED <<classifierVars, optionVars, routeVars, layoutVars, viewVars, selectionVars>>

\* The fetch of a request settles with r, a response with another status or
\* a body that is no JSON, or a network error: lines 75-77 and 86-88.
SubmitFailed(mounted, r) ==
    /\ ~ResponseSucceeds(r)
    /\ lastResponse' = r
    /\ IF mounted
       THEN /\ inFlight > 0
            /\ inFlight' = inFlight - 1
            /\ submitText' = "Something went wrong"
            /\ UNCHANGED staleInFlight
       ELSE /\ staleInFlight > 0
            /\ staleInFlight' = staleInFlight - 1
            /\ UNCHANGED <<inFlight, submitText>>
    /\ UNCHANGED <<appTeamsIsOpen, formState, teamsSubmitted, closeTimers, posts,
                   lastBody, trackingCalls>>
    /\ UNCHANGED <<classifierVars, optionVars, routeVars, layoutVars, viewVars, selectionVars>>

\* The timer of line 84 fires: setOpen(false).
CloseTimerFires ==
    /\ closeTimers > 0
    /\ closeTimers' = closeTimers - 1
    /\ IF appTeamsIsOpen
       THEN UnmountForm
       ELSE UNCHANGED <<appTeamsIsOpen, formState, submitText, inFlight, staleInFlight>>
    /\ UNCHANGED <<teamsSubmitted, posts, lastBody, trackingCalls, lastResponse>>
    /\ UNCHANGED <<classifierVars, optionVars, routeVars, layoutVars, viewVars, selectionVars>>

-----------------------------------------------------------------------------
\* The dataset view, part_001: Dataset and useResetPaths.

\* The paths of the fields a user can make active in the grid.
ViewPaths == {"ground_truth", "predictions"}

\* selectors.datasetName when no dataset is selected: a falsy value.
NoName == ""

\* The default of the atom, which useResetRecoilState restores; the atom's
\* definition is outside the files modelled here.
DefaultFields == [default |-> TRUE]

\* A selection a user made while the store held the dataset name n.
Selections == [dataset : DatasetNames, paths : SUBSET ViewPaths]

NoGrid == [none |-> "grid"]

\* selectors.hasDataset of line 43; the selector is outside the files
\* modelled here and is taken to be Boolean(datasetName).
hasDataset(name) == name # NoName

\* useEffect(..., [dataset]), lines 36-38: the effect runs after the first
\* render pass and after every pass whose dataset differs from the committed
\* one.
ResetEffectRuns(mounted, deps, dataset) == ~mounted \/ deps # dataset

ViewInit ==
    /\ viewDatasetName = NoName
    /\ activeFields = DefaultFields
    /\ viewMounted = FALSE
    /\ resetDeps = NoName
    /\ resetPending = FALSE
    /\ gridUses = NoGrid

\* The store gets another dataset name (a state update from outside
\* part_001).
SetDatasetName(n) ==
    /\ n # viewDatasetName
    /\ viewDatasetName' = n
    /\ UNCHANGED <<activeFields, viewMounted, resetDeps, resetPending, gridUses>>
    /\ UNCHANGED <<classifierVars, optionVars, routeVars, layoutVars, formVars, selectionVars>>

\* A user's toggle in the rendered grid sets the atom (the setter's callers
\* are outside the files modelled here).  Pending passive effects are flushed
\* before an event handler runs.
SelectFields(ps) ==
    /\ gridUses # NoGrid
    /\ ~resetPending
    /\ hasDataset(viewDatasetName)
    /\ activeFields' = [dataset |-> viewDatasetName, paths |-> ps]
    /\ UNCHANGED <<viewDatasetName, viewMounted, resetDeps, resetPending, gridUses>>
    /\ UNCHANGED <<classifierVars, optionVars, routeVars, layoutVars, formVars, selectionVars>>

\* A render pass of Dataset, lines 41-76: useResetPaths reads the dataset name
\* and schedules its effect when the name differs from the committed one; the
\* grid (SamplesContainer, line 64) renders in the same pass, from the store
\* as it is, when there is a dataset.  The effects of the pass before have
\* run.
ViewRender ==
    /\ ~resetPending
    /\ viewMounted' = TRUE
    /\ resetDeps' = viewDatasetName
    /\ resetPending' = ResetEffectRuns(viewMounted, resetDeps, viewDatasetName)
    /\ gridUses' = IF hasDataset(viewDatasetName)
                      THEN [dataset |-> viewDatasetName, fields |-> activeFields]
                      ELSE NoGrid
    /\ UNCHANGED <<viewDatasetName, activeFields>>
    /\ UNCHANGED <<classifierVars, optionVars, routeVars, layoutVars, formVars, selectionVars>>

\* The effect of lines 36-38 runs after the pass is committed: resetPaths().
ResetPathsEffect ==
    /\ resetPending
    /\ resetPending' = FALSE
    /\ activeFields' = DefaultFields
    /\ UNCHANGED <<viewDatasetName, viewMounted, resetDeps, gridUses>>
    /\ UNCHANGED <<classifierVars, optionVars, routeVars, layoutVars, formVars, selectionVars>>

-----------------------------------------------------------------------------
\* The selection mappings and their toggles, SamplesContainer.tsx lines 64-69
\* and 118-125.

\* The names of the options a user can toggle.
ToggleNames == {AllNames[1], AllNames[3]}

\* The three mappings and the handler of each: onSelectTag, onSelectLabel,
\* onSelectScalar (lines 118, 119, 125).
Targets == {"tags", "labels", "other"}

\* What a handler is called with.
ToggleEntries == [name : ToggleNames, selected : BOOLEAN]

\* A mutation of SelectedUpdater: the object is spread from the mapping the
\* handler was built with instead of the updater's argument.
SelectedUpdaterFromClosure(closure, latest, entry) ==
    [k \in DOMAIN closure \cup {entry.name} |->
        IF k = entry.name THEN entry.selected ELSE closure[k]]

\* The updater of lines 65-68, (selected) => ({...selected, [entry.name]:
\* entry.selected}), applied to the latest value of the mapping.  Its
\* parameter shadows the handler's parameter selected (closure), which is not
\* read.
SelectedUpdater(closure, latest, entry) ==
    [k \in DOMAIN latest \cup {entry.name} |->
        IF k = entry.name THEN entry.selected ELSE latest[k]]

\* A render pass runs the queued updaters of one mapping in the order of
\* their calls, each on the result of the one before.
RECURSIVE ApplyUpdates(_, _, _, _)
ApplyUpdates(target, closure, latest, queue) ==
    IF queue = <<>> THEN latest
    ELSE ApplyUpdates(target, closure,
                      IF Head(queue).target = target
                      THEN SelectedUpdater(closure, latest, Head(queue).entry)
                      ELSE latest,
                      Tail(queue))

\* The mappings are owned by the component that passes displayProps (outside
\* the files modelled here); they start empty and take every value by toggles.
SelectionInit ==
    /\ activeTags = <<>>
    /\ activeLabels = <<>>
    /\ activeOther = <<>>
    /\ pendingUpdates = <<>>
    /\ lastBatch = 0

\* handleSetDisplayOption(selected, setSelected)(entry), lines 64-69, for the
\* handler of one mapping: setSelected is called with an updater, which is
\* queued for the next render pass.
SelectOption(target, entry) ==
    /\ Len(pendingUpdates) < MaxPending
    /\ pendingUpdates' = Append(pendingUpdates, [target |-> target, entry |-> entry])
    /\ lastBatch' = 0
    /\ UNCHANGED <<activeTags, activeLabels, activeOther>>
    /\ UNCHANGED <<classifierVars, optionVars, routeVars, layoutVars, formVars, viewVars>>

\* The render pass after one or more setSelected calls: each mapping takes
\* the result of its queued updaters, and the handlers are built again from
\* the new mappings (lines 118-125).
SelectionRender ==
    /\ pendingUpdates # <<>>
    /\ activeTags' = ApplyUpdates("tags", activeTags, activeTags, pendingUpdates)
    /\ activeLabels' = ApplyUpdates("labels", activeLabels, activeLabels, pendingUpdates)
    /\ activeOther' = ApplyUpdates("other", activeOther, activeOther, pendingUpdates)
    /\ pendingUpdates' = <<>>
    /\ lastBatch' = Len(pendingUpdates)
    /\ UNCHANGED <<classifierVars, optionVars, routeVars, layoutVars, formVars, viewVars>>

-----------------------------------------------------------------------------
vars == <<classifierVars, optionVars, routeVars, layoutVars, formVars, viewVars,
          selectionVars>>

\* The field classifier on every input.
InitClassifier == ClassifierInit /\ OptionsIdle /\ RouteInit /\ LayoutInit /\ FormInit /\ ViewInit /\ SelectionInit
NextClassifier == Classify
SpecClassifier == InitClassifier /\ [][NextClassifier]_vars

\* getDisplayOptions on every input.
InitOptions == OptionsInit /\ ClassifierIdle /\ RouteInit /\ LayoutInit /\ FormInit /\ ViewInit /\ SelectionInit
NextOptions == BuildDisplayOptions
SpecOptions == InitOptions /\ [][NextOptions]_vars

\* The Dataset route over every sequence of render passes.
InitRoute == RouteInit /\ ClassifierIdle /\ OptionsIdle /\ LayoutInit /\ FormInit /\ ViewInit /\ SelectionInit
NextRoute ==
    \/ \E d \in Datasets \cup {Null} : RouteRender(d)
    \/ RouteEffect
SpecRoute == InitRoute /\ [][NextRoute]_vars

\* The sidebar layout over every sequence of events.
InitLayout == LayoutInit /\ ClassifierIdle /\ OptionsIdle /\ RouteInit /\ FormInit /\ ViewInit /\ SelectionInit
NextLayout ==
    \/ \E attaches \in BOOLEAN : ShowSidebar(attaches)
    \/ MountEffects
    \/ HideSidebar
    \/ \E h \in ViewportHeights, t \in PanelTops : WindowResize(h, t)
    \/ \E t \in PanelTops : ContainerScroll(t)
    \/ \E t \in PanelTops : LayoutShift(t)
    \/ \E r \in StickyRects : StickyMeasure(r)
    \/ WrapperRender
SpecLayout == InitLayout /\ [][NextLayout]_vars

\* The lead-capture form over every sequence of user actions and responses.
InitForm == FormInit /\ ClassifierIdle /\ OptionsIdle /\ RouteInit /\ LayoutInit /\ ViewInit /\ SelectionInit
NextForm ==
    \/ OpenForm
    \/ CloseForm
    \/ \E name \in FormFields, v \in FieldValues : SetFormValue(name, v)
    \/ Submit
    \/ \E mounted \in BOOLEAN, r \in Responses : SubmitSucceeded(mounted, r)
    \/ \E mounted \in BOOLEAN, r \in Responses : SubmitFailed(mounted, r)
    \/ CloseTimerFires
SpecForm == InitForm /\ [][NextForm]_vars

\* The same, with the timer of line 84 firing once it is set: setTimeout runs
\* its callback after the delay.
SpecFormFair == SpecForm /\ WF_vars(CloseTimerFires)

\* The dataset view over every sequence of store updates, selections and
\* render passes.
InitView ==
    ViewInit /\ ClassifierIdle /\ OptionsIdle /\ RouteInit /\ LayoutInit /\ FormInit
    /\ SelectionInit
NextView ==
    \/ \E n \in DatasetNames \cup {NoName} : SetDatasetName(n)
    \/ \E ps \in SUBSET ViewPaths : SelectFields(ps)
    \/ ViewRender
    \/ ResetPathsEffect
SpecView == InitView /\ [][NextView]_vars

\* The selection mappings over every sequence of toggles and render passes.
InitSelection ==
    SelectionInit /\ ClassifierIdle /\ OptionsIdle /\ RouteInit /\ LayoutInit /\ FormInit
    /\ ViewInit
NextSelection ==
    \/ \E target \in Targets, entry \in ToggleEntries : SelectOption(target, entry)
    \/ SelectionRender
SpecSelection == InitSelection /\ [][NextSelection]_vars

-----------------------------------------------------------------------------
(* Claims about the field classifier and getDisplayOptions *)

GroupNames(g) == {g[i].name : i \in 1..Len(g)}

\* C1: once the classification loop has run, the names of the three groups
\* labels, scalars and unsupported are pairwise disjoint, their union is the
\* set of names of labelNames, and no name is put twice: every name lands in
\* exactly one group.
C1_GroupsPartitionNames ==
    clsPc = "classified" =>
        LET L == GroupNames(labelNameGroups.labels)
            S == GroupNames(labelNameGroups.scalars)
            U == GroupNames(labelNameGroups.unsupported)
        IN  /\ L \cap S = {}
            /\ L \cap U = {}
            /\ S \cap U = {}
            /\ L \cup S \cup U = Range(labelNames)
            /\ Len(labelNameGroups.labels) + Len(labelNameGroups.scalars)
                   + Len(labelNameGroups.unsupported) = Len(labelNames)

\* C1 witness: a classification of three names in which each group got one.
C1_Witness ==
    /\ clsPc = "classified"
    /\ Len(labelNames) = 3
    /\ Len(labelNameGroups.labels) = 1
    /\ Len(labelNameGroups.scalars) = 1
    /\ Len(labelNameGroups.unsupported) = 1

\* C2: the classifier agrees with the reference rule for every field: a name
\* whose label type is allow-listed is in labels (with that type), also when
\* its schema type is an allowed scalar; otherwise a name whose schema type is
\* allow-listed is in scalars; otherwise (a name absent from both lookups
\* included) it is in unsupported.
C2_ReferenceRule ==
    clsPc = "classified" =>
        \A n \in Range(labelNames) :
            LET isLabel == n \in DOMAIN labelTypes /\ labelTypes[n] \in VALID_LABEL_TYPES
                isScalar == n \in DOMAIN fieldSchema /\ fieldSchema[n] \in VALID_SCALAR_TYPES
            IN  /\ isLabel <=> n \in GroupNames(labelNameGroups.labels)
                /\ (~isLabel /\ isScalar) <=> n \in GroupNames(labelNameGroups.scalars)
                /\ (~isLabel /\ ~isScalar) <=> n \in GroupNames(labelNameGroups.unsupported)
                /\ \A i \in 1..Len(labelNameGroups.labels) :
                       labelNameGroups.labels[i].name = n =>
                           labelNameGroups.labels[i].type = labelTypes[n]

\* C2 witness: the specification's example with "a" for tags, "ab" for
\* confidence and "b" for blob, where the label "a" also has schema type
\* float.
C2_Witness ==
    /\ clsPc = "classified"
    /\ labelNames = << <<97>>, <<97, 98>>, <<98>> >>
    /\ Lookup(labelTypes, <<97>>) = "Classification"
    /\ Lookup(fieldSchema, <<97>>) = "float"
    /\ Lookup(labelTypes, <<97, 98>>) = Undefined
    /\ Lookup(fieldSchema, <<97, 98>>) = "float"
    /\ Lookup(labelTypes, <<98>>) = Undefined
    /\ Lookup(fieldSchema, <<98>>) = "UnknownType"
    /\ GroupNames(labelNameGroups.labels) = { <<97>> }
    /\ GroupNames(labelNameGroups.scalars) = { <<97, 98>> }
    /\ GroupNames(labelNameGroups.unsupported) = { <<98>> }

\* C3: the records getDisplayOptions returns are those of the entries passed
\* in, sorted by name ascending whatever the input order, each with
\* count = counts[name] and selected = Boolean(selected[name]).
C3_SortedByName ==
    optPc = "built" =>
        /\ Len(displayOptions) = Len(optValues)
        /\ {displayOptions[i].name : i \in 1..Len(displayOptions)}
               = {optValues[i].name : i \in 1..Len(optValues)}
        /\ \A i \in 1..Len(displayOptions) :
               /\ displayOptions[i].count = optCounts[displayOptions[i].name]
               /\ displayOptions[i].selected =
                      (displayOptions[i].name \in DOMAIN optSelected
                           /\ optSelected[displayOptions[i].name])
        /\ \A i \in 1..(Len(displayOptions) - 1) :
               StrLess(displayOptions[i].name, displayOptions[i + 1].name)

-----------------------------------------------------------------------------
(* Claims about the Dataset route *)

PendingPublishes == IF effectPending THEN 1 ELSE 0

\* C4: the publish step update({dataset: transformDataset(dataset)}) fires at
\* most once per distinct incoming dataset value: counting from the render
\* pass at which the query result last changed, there is never more than one
\* update done or due, however often the route renders again with that same
\* description, and for a description there is exactly one (done, or due
\* before the next render pass).
C4_PublishOncePerDataset ==
    /\ publishCount + PendingPublishes <= 1
    /\ queryDataset \in Datasets => publishCount + PendingPublishes = 1

\* C4 witness: the route has rendered at least twice in a row with one
\* description, whose single update has been published.
C4_Witness ==
    /\ queryDataset \in Datasets
    /\ sameRenders >= 2
    /\ ~effectPending
    /\ publishCount = 1
    /\ stateDataset = transformDataset(queryDataset)

\* C5: when the query result is absent, the render pass raises NotFoundError
\* to its caller, and the synchronizer does not run for it: no update is
\* published or left due, and no view is rendered.
C5_NotFoundRaises ==
    queryDataset = Null =>
        /\ routeOutput = "NotFoundError"
        /\ routePhase = "unmounted"
        /\ ~effectPending
        /\ publishCount = 0

\* C5 witness: a dataset had been published and rendered, and the next query
\* result is absent.
C5_Witness ==
    /\ queryDataset = Null
    /\ routeOutput = "NotFoundError"
    /\ stateDataset \in Datasets

\* C6: whenever the dataset name in shared view state does not match the
\* dataset just fetched (there is none, or it is still the name of the
\* dataset published before), the route has rendered nothing; the dataset view
\* is rendered only when the published state is that of the fetched dataset.
C6_ViewOnlyForFetchedDataset ==
    queryDataset \in Datasets =>
        /\ datasetName(stateDataset) # queryDataset.name => routeOutput = "null"
        /\ routeOutput = "DatasetComponent" =>
               datasetName(stateDataset) = queryDataset.name

-----------------------------------------------------------------------------
(* Claims about the sidebar layout *)

MeasureTriggers == {"mount", "resize", "scroll"}

\* C7: after the mount effect and after every resize or scroll event handled
\* while the sidebar element is attached, sidebarHeight is the viewport height
\* minus the sidebar's top as they are at that event; and the controller has
\* no terminal state: while the wrapper is mounted, a resize and a scroll
\* event can always be handled again.
C7_HeightIsViewportMinusTop ==
    /\ (wrapperPhase = "active" /\ sidebarAttached /\ lastTrigger \in MeasureTriggers)
           => sidebarHeight = Px(innerHeight - sidebarTop)
    /\ wrapperPhase = "active" =>
           /\ ENABLED (\E h \in ViewportHeights, t \in PanelTops : WindowResize(h, t))
           /\ ENABLED (\E t \in PanelTops : ContainerScroll(t))

\* C7 witness: the specification's example, viewport 800 and top 100 give 700,
\* measured by the handler of a resize event.
C7_Witness ==
    /\ wrapperPhase = "active"
    /\ sidebarAttached
    /\ lastTrigger = "resize"
    /\ innerHeight = 800
    /\ sidebarTop = 100
    /\ sidebarHeight = Px(700)

\* C8: a call of updateSidebarHeight (mount, resize or scroll) while the
\* sidebar element is not attached changes nothing and raises no error:
\* sidebarHeight keeps the value it had, which is "unset" from the start.
C8_SkipWhenNotAttached ==
    [][(lastTrigger' \in MeasureTriggers /\ wrapperPhase' = "active" /\ ~sidebarAttached')
           => (/\ sidebarHeight' = sidebarHeight
               /\ sidebarHeight' = Unset
               /\ layoutError' = FALSE)]_vars

\* C8 witness: a scroll event has been handled with no element attached.
C8_Witness ==
    /\ wrapperPhase = "active"
    /\ ~sidebarAttached
    /\ lastTrigger = "scroll"
    /\ sidebarHeight = Unset
    /\ ~layoutError

\* C9: the sticky offset applied to the side panel is the rendered height of
\* the pinned header whenever that height has been measured and 0 when not:
\* when the header's height changes, the offset follows.
C9_OffsetIsHeaderHeight ==
    wrapperPhase # "unmounted" => stickyOffset = headerHeight(stickyRect)

-----------------------------------------------------------------------------
(* Claims about the lead-capture form *)

RequiredEmpty(fs) == fs.firstname = <<>> \/ fs.lastname = <<>> \/ fs.email = <<>>

\* C10: in every state of the form in which firstname, lastname or email is
\* empty, the submit action is disabled whatever the other fields hold, and no
\* request to the marketing endpoint can be issued from it: every request
\* that was issued carries a first name, a last name and an email.
C10_RequiredFieldsGuardSubmit ==
    /\ (appTeamsIsOpen /\ RequiredEmpty(formState)) =>
           /\ SubmitDisabled(formState, teamsSubmitted)
           /\ ~ENABLED Submit
    /\ lastBody # NoBody =>
           \A i \in 1..3 : lastBody.fields[i].value # <<>>

\* C10 witness: the form is open with only firstname empty, after a request
\* went out of it while firstname was filled.
C10_Witness ==
    /\ appTeamsIsOpen
    /\ inFlight = 1
    /\ ~teamsSubmitted
    /\ formState = [EmptyForm EXCEPT !.email = <<120>>, !.lastname = <<120>>,
                                     !.company = <<120>>, !.role = <<120>>,
                                     !.discover = <<120>>]
    /\ SubmitDisabled(formState, teamsSubmitted)

-----------------------------------------------------------------------------
\* C11.  When a submission ends with a response whose status is not 200 or
\* with a network exception, the label of the form that submitted becomes
\* "Something went wrong"; teams.submitted, appTeamsIsOpen, the form's fields
\* and with them the availability of the submit button are as they were; the
\* tracking endpoint gets no request and no timer is set; and no request goes
\* to the marketing endpoint in that step or in any other step than a click on
\* the submit button.
NotOk(r) == r.networkError \/ r.status # 200

C11_FailureLeavesRetryToUser ==
    [][ /\ \A mounted \in BOOLEAN, r \in Responses :
             (NotOk(r) /\ SubmitFailed(mounted, r)) =>
                 /\ mounted => submitText' = "Something went wrong"
                 /\ teamsSubmitted' = teamsSubmitted
                 /\ appTeamsIsOpen' = appTeamsIsOpen
                 /\ trackingCalls' = trackingCalls
                 /\ closeTimers' = closeTimers
                 /\ posts' = posts
                 /\ formState' = formState
                 /\ SubmitDisabled(formState', teamsSubmitted')
                        = SubmitDisabled(formState, teamsSubmitted)
        /\ posts' # posts => Submit
      ]_vars

\* A first submission has failed with a status other than 200 or a network
\* error: the label is the failure text, nothing is recorded and the button
\* is not disabled.
C11_Witness ==
    /\ lastResponse # NoResponse
    /\ NotOk(lastResponse)
    /\ appTeamsIsOpen
    /\ submitText = "Something went wrong"
    /\ posts = 1
    /\ inFlight = 0
    /\ staleInFlight = 0
    /\ ~teamsSubmitted
    /\ trackingCalls = 0
    /\ ~SubmitDisabled(formState, teamsSubmitted)

-----------------------------------------------------------------------------
\* C12.  When a submission receives a response with status 200 whose body
\* parses as JSON, teams.submitted becomes true, the tracking endpoint gets
\* exactly one request, and one timer is set while the container stays as it
\* is; a timer is pending only when teams.submitted is already true, the step
\* in which a timer fires leaves the container closed, and every pending timer
\* leads to a closed container.
Ok200(r) == ~r.networkError /\ r.status = 200

\* The step in which a request settles with r.
Settles(r) ==
    /\ lastResponse' = r
    /\ inFlight' + staleInFlight' = inFlight + staleInFlight - 1

C12_SuccessRecordsThenCloses ==
    /\ [][ \A r \in Responses :
             (Ok200(r) /\ r.jsonBody /\ Settles(r)) =>
                 /\ teamsSubmitted'
                 /\ trackingCalls' = trackingCalls + 1
                 /\ closeTimers' = closeTimers + 1
                 /\ appTeamsIsOpen' = appTeamsIsOpen ]_vars
    /\ [](closeTimers > 0 => teamsSubmitted)
    /\ [][ closeTimers' < closeTimers => (teamsSubmitted /\ ~appTeamsIsOpen') ]_vars
    /\ (closeTimers > 0) ~> ~appTeamsIsOpen

\* The first submission got 200 with a JSON body: the flag is set, one
\* tracking request is out, and the timer is pending with the form still open.
C12_Witness ==
    /\ lastResponse # NoResponse
    /\ Ok200(lastResponse)
    /\ lastResponse.jsonBody
    /\ appTeamsIsOpen
    /\ submitText = "Submitted. Thank you!"
    /\ teamsSubmitted
    /\ trackingCalls = 1
    /\ closeTimers = 1
    /\ posts = 1

\* C12 as stated: every response with status 200 sets teams.submitted and
\* notifies the tracking endpoint once.
C12_Every200Records ==
    [][ \A r \in Responses :
           (Ok200(r) /\ Settles(r)) =>
               /\ teamsSubmitted'
               /\ trackingCalls' = trackingCalls + 1 ]_vars

-----------------------------------------------------------------------------
\* C13.  After the dataset name in the store changes, the grid is never
\* rendered for the new dataset with a selection made under another dataset:
\* whatever a render pass gives the grid is the default of activeFields or a
\* selection made under the dataset it is rendered for.
C13_ResetBeforeUse ==
    gridUses # NoGrid =>
        \/ gridUses.fields = DefaultFields
        \/ gridUses.fields.dataset = gridUses.dataset

-----------------------------------------------------------------------------
\* C14.  The response to a request whose form was unmounted while the request
\* was in flight is discarded: the step in which it arrives leaves
\* teams.submitted and appTeamsIsOpen as they were, sends nothing to the
\* tracking endpoint and sets no timer that would later close the container.
C14_LateResponseDiscarded ==
    [][ staleInFlight' < staleInFlight =>
            /\ teamsSubmitted' = teamsSubmitted
            /\ appTeamsIsOpen' = appTeamsIsOpen
            /\ trackingCalls' = trackingCalls
            /\ closeTimers' = closeTimers ]_vars

-----------------------------------------------------------------------------
\* C16.  Once teams.submitted is true the submit button is disabled whatever
\* the fields hold, no request goes to the marketing endpoint from then on,
\* and at most one submission is ever recorded as successful (each success
\* sends one request to the tracking endpoint).
C16_AtMostOneSuccess ==
    /\ [](teamsSubmitted =>
            \A fs \in [FormFields -> FieldValues] : SubmitDisabled(fs, teamsSubmitted))
    /\ [][ teamsSubmitted => posts' = posts ]_vars
    /\ [](trackingCalls <= 1)

-----------------------------------------------------------------------------
\* C15.  A render pass that follows one or more toggles leaves every mapping
\* with, for each name, the selected value of the last toggle of that mapping
\* that named it, and otherwise the value (or the absence) the name had
\* before: a toggle changes only its name in its mapping, the other two
\* mappings keep their values, and toggles handled before the same render
\* pass are all kept.
Active(target) ==
    CASE target = "tags" -> activeTags
      [] target = "labels" -> activeLabels
      [] target = "other" -> activeOther

\* The positions in the queue of the toggles of name k in the mapping target.
TogglesOf(target, k) ==
    {i \in 1..Len(pendingUpdates) :
        pendingUpdates[i].target = target /\ pendingUpdates[i].entry.name = k}

LastOf(S) == CHOOSE i \in S : \A j \in S : j <= i

C15_ToggleSetsOnlyItsKey ==
    [][ (pendingUpdates # <<>> /\ pendingUpdates' = <<>>) =>
            \A target \in Targets :
                /\ DOMAIN Active(target)' =
                       DOMAIN Active(target)
                           \cup {k \in ToggleNames : TogglesOf(target, k) # {}}
                /\ \A k \in DOMAIN Active(target)' :
                       Active(target)'[k] =
                           IF TogglesOf(target, k) # {}
                           THEN pendingUpdates[LastOf(TogglesOf(target, k))].entry.selected
                           ELSE Active(target)[k]
      ]_vars

\* One render pass has applied two toggles of the tags, one for each name,
\* and both are in the mapping; the other mappings hold what they held.
C15_Witness ==
    /\ lastBatch = 2
    /\ DOMAIN activeTags = ToggleNames
    /\ \A k \in ToggleNames : activeTags[k]
    /\ activeLabels = <<>>
    /\ activeOther = <<>>

=============================================================================
